---- MODULE Spec2Model ----
(***************************************************************************)
(* State-machine model of the video proxy server (src/server.js):          *)
(* the admission limiter, the two retrying fetchers, the /proxy handler    *)
(* with its keepalive interval and request timeout, the relay pipeline     *)
(* and the failure classifier of the handler's catch block.                *)
(*                                                                         *)
(* JavaScript runs every callback to completion.  The variable `running'   *)
(* names the request whose handler is executing synchronously; event       *)
(* actions (a request arriving, a fetch settling, a timer firing, a chunk  *)
(* arriving) need running = 0, and the steps of a handler between two      *)
(* awaits need running = r.                                                *)
(***************************************************************************)
EXTENDS Integers, Sequences, FiniteSets, TLC

\* ------------------------------------------------------------ constants

RATE_LIMIT_WINDOW == 60 * 1000
RATE_LIMIT_MAX == 10
MAX_FILE_SIZE == 25 * 1024 * 1024
\* default value of the maxRetries parameter of both fetchers
maxRetries == 3
\* let retryDelay = 1000
InitialRetryDelay == 1000
\* period of keepAliveInterval
KEEPALIVE_MS == 10000
\* Date.now() at the expiry check, in ms
currentTime == 1000000

\* ---------------------------------------------------------------- bounds

\* requests of one client explored within one rate window, where the limiter
\* is studied (SpecLimiter) and elsewhere
MaxCount == 12
MaxRequests == 2
\* keepalive writes recorded per request
MaxPulses == 2

\* ------------------------------------------------------------ environment

Slots == {1, 2}
AllClients == {"10.0.0.1", "10.0.0.2"}
NONE == "none"

\* A header or query value a number is parsed from: absent, a decimal string,
\* or a string parseInt turns into NaN.
Absent == <<"none", 0>>
Num(n) == <<"num", n>>
NotANumber == <<"nan", 0>>

\* parseInt(s, 10) * 1000 of a present string
ParseIntTimes1000(s) == IF s[1] = "num" THEN Num(s[2] * 1000) ELSE NotANumber

\* a < b of two JavaScript numbers: false when either is NaN
JsLess(a, b) == a[1] = "num" /\ b[1] = "num" /\ a[2] < b[2]

\* Target URLs, by the outcome of the string tests the handler applies:
\*   present  req.query.url is a non-empty string
\*   page     it contains youtube.com/watch, youtu.be/ or youtube.com/(shorts|...)
\*   ytText   it contains googlevideo.com, youtube.com or youtu.be
\*   parses   new URL(url) succeeds
\*   gvHost   the host name of the parsed URL contains googlevideo.com
\*   expire   the value of its expire query parameter
\*   digits   which of the texts the failure classifier looks for ("429",
\*            "403") occur in it; none unless said otherwise
MkUrl(present, page, ytText, parses, gvHost, expire) ==
    [present |-> present, page |-> page, ytText |-> ytText, parses |-> parses,
     gvHost |-> gvHost, expire |-> expire, digits |-> {}]

\* (no url parameter)
UrlMissing == MkUrl(FALSE, FALSE, FALSE, FALSE, FALSE, Absent)
\* https://www.youtube.com/watch?v=abc
UrlPage == MkUrl(TRUE, TRUE, TRUE, TRUE, FALSE, Absent)
\* https://example.com/video.mp4
UrlGeneric == MkUrl(TRUE, FALSE, FALSE, TRUE, FALSE, Absent)
\* https://r1.googlevideo.com/videoplayback?expire=2000   (not yet expired)
UrlGvFresh == MkUrl(TRUE, FALSE, TRUE, TRUE, TRUE, Num(2000))
\* https://r1.googlevideo.com/videoplayback?expire=999    (expired)
UrlGvExpired == MkUrl(TRUE, FALSE, TRUE, TRUE, TRUE, Num(999))
\* https://r1.googlevideo.com/videoplayback?expire=soon   (parseInt gives NaN)
UrlGvNaN == MkUrl(TRUE, FALSE, TRUE, TRUE, TRUE, NotANumber)
\* https://www.youtube.com/videoplayback?expire=999       (host is not googlevideo)
UrlYtExpired == MkUrl(TRUE, FALSE, TRUE, TRUE, FALSE, Num(999))
\* googlevideo.com/videoplayback                          (new URL throws)
UrlGvInvalid == MkUrl(TRUE, FALSE, TRUE, FALSE, FALSE, Absent)

\* https://example.com/clip-4290.mp4
UrlNumbered == [UrlGeneric EXCEPT !.digits = {"429"}]

AllUrls ==
    {UrlMissing, UrlPage, UrlGeneric, UrlGvFresh, UrlGvExpired, UrlGvNaN,
     UrlYtExpired, UrlGvInvalid}

\* req.headers.range: undefined when the client sent no Range header, else the
\* value of the header, which may be the empty string ("Range:" with no value).
RangeHeaders == {NONE, "", "bytes=500-999"}

\* if (x) of a header value: undefined and the empty string are falsy
Truthy(x) == x # NONE /\ x # ""

\* Errors, by the fields the catch block of the handler reads: name, code, type
\* and which of the substrings it looks for occur in the message.
MkError(name, code, type, has) ==
    [name |-> name, code |-> code, type |-> type, has |-> has]

NoError == MkError(NONE, NONE, NONE, {})
\* new Error('YouTube URL has expired. Request a fresh URL.')
ExpiredError == MkError("Error", NONE, NONE, {"URL has expired"})
\* new Error(`YouTube responded with ${response.status} ${response.statusText}`)
StatusError(status) ==
    MkError("Error", NONE, NONE,
            IF status = 429 THEN {"429"} ELSE IF status = 403 THEN {"403"} ELSE {})
\* new Error('Failed to fetch after multiple attempts')
ExhaustedError == MkError("Error", NONE, NONE, {})
\* node-fetch FetchError of type 'system' (DNS failure, connection refused)
SystemError(code) == MkError("FetchError", code, "system", {})
\* node-fetch FetchError of type 'request-timeout' (options.timeout elapsed)
TimeoutError == MkError("FetchError", NONE, "request-timeout", {})
\* The error a failed network call rejects with, as node-fetch words it:
\* `request to ${url} failed, reason: ${err.message}`, `network timeout at: ${url}`
Failure(e, url) == [e EXCEPT !.has = @ \cup url.digits]
\* TypeError [ERR_INVALID_URL] thrown by new URL(url)
InvalidUrlError == MkError("TypeError", "ERR_INVALID_URL", NONE, {})
\* Error [ERR_HTTP_HEADERS_SENT] thrown by res.setHeader after the headers went out
HeadersSentError == MkError("Error", "ERR_HTTP_HEADERS_SENT", NONE, {})

\* Upstream responses: status, Retry-After, Content-Length, whether a
\* Content-Type is present, and the body as the sizes of its chunks.
MkResponse(status, retryAfter, contentLength, contentType, body) ==
    [status |-> status, retryAfter |-> retryAfter, contentLength |-> contentLength,
     contentType |-> contentType, body |-> body]

NoResponse == MkResponse(0, Absent, Absent, FALSE, <<>>)

\* Samples of what upstream answers.
\* 200 with a declared length and two chunks
Resp200 == MkResponse(200, Absent, Num(1000), TRUE, <<600, 400>>)
\* 206 Partial Content
Resp206 == MkResponse(206, Absent, Num(500), TRUE, <<500>>)
\* 200 declaring one byte more than the cap
RespTooLarge == MkResponse(200, Absent, Num(MAX_FILE_SIZE + 1), TRUE, <<MAX_FILE_SIZE, 1>>)
\* 200 declaring exactly the cap
RespAtCap == MkResponse(200, Absent, Num(MAX_FILE_SIZE), TRUE, <<MAX_FILE_SIZE>>)
\* 200 with no Content-Length and no Content-Type, longer than the cap
RespUndeclared == MkResponse(200, Absent, Absent, FALSE, <<MAX_FILE_SIZE, 1>>)
\* 403 Forbidden
Resp403 == MkResponse(403, Absent, Num(100), TRUE, <<100>>)
\* 429 without Retry-After, with Retry-After: 2, with Retry-After: 10
Resp429 == MkResponse(429, Absent, Absent, TRUE, <<>>)
Resp429After2 == MkResponse(429, Num(2), Absent, TRUE, <<>>)
Resp429After10 == MkResponse(429, Num(10), Absent, TRUE, <<>>)

\* key.toLowerCase() of the header names that occur
ToLowerCase(name) ==
    CASE name = "Content-Type" -> "content-type"
      [] name = "Content-Length" -> "content-length"
      [] name = "Content-Encoding" -> "content-encoding"
      [] name = "Connection" -> "connection"
      [] name = "Transfer-Encoding" -> "transfer-encoding"
      [] name = "Retry-After" -> "retry-after"
      [] name = "ETag" -> "etag"
      [] name = "Accept-Ranges" -> "accept-ranges"
      [] OTHER -> name

\* The header lines of an upstream response, as upstream wrote them.
UpstreamHeaders(rsp) ==
    <<(<<"ETag", "abc">>), <<"Accept-Ranges", "bytes">>, <<"Connection", "close">>,
      <<"Content-Encoding", "identity">>>>
    \o (IF rsp.contentType THEN <<(<<"Content-Type", "video/mp4">>)>> ELSE <<>>)
    \o (IF rsp.contentLength[1] = "num"
        THEN <<(<<"Content-Length", ToString(rsp.contentLength[2])>>)>>
        ELSE <<(<<"Transfer-Encoding", "chunked">>)>>)
    \o (IF rsp.retryAfter[1] = "num"
        THEN <<(<<"Retry-After", ToString(rsp.retryAfter[2])>>)>> ELSE <<>>)

\* response.headers.entries(): node-fetch keeps header names in lower case
Entries(rsp) ==
    LET lines == UpstreamHeaders(rsp)
    IN  [i \in 1..Len(lines) |-> <<ToLowerCase(lines[i][1]), lines[i][2]>>]

AllResponses ==
    {Resp200, Resp206, RespTooLarge, RespAtCap, RespUndeclared, Resp403,
     Resp429, Resp429After2, Resp429After10}

\* Errors a network call can reject with: any fetch can fail at the system
\* level; only a fetch given options.timeout (fetchFromYouTube) can time out.
NetworkErrors(isYouTubeUrl) ==
    {SystemError("ENOTFOUND"), SystemError("ECONNREFUSED")}
        \cup (IF isYouTubeUrl THEN {TimeoutError} ELSE {})

\* ------------------------------------------------------------------ state

VARIABLES
    requestCounts,       \* requestCounts[ip] (an absent key reads as 0)
    totalBytesStreamed,  \* the module-level byte counter
    rq,                  \* rq[r]: the request in slot r, its handler and its res
    running,             \* the slot whose handler is executing, or 0
    sinceReset,          \* history: requests received per client since the last reset
    lastVerdict,         \* history: what the limiter did with the client's last request
    recovering,          \* history: rejected before the last reset, no request since
    justReset            \* history: the last step was the reset timer

vars ==
    <<requestCounts, totalBytesStreamed, rq, running, sinceReset, lastVerdict,
      recovering, justReset>>

\* A slot before any request: req, res and the locals of the /proxy handler.
Fresh ==
    [pc |-> "idle", route |-> NONE, url |-> UrlMissing, range |-> NONE,
     verdict |-> NONE,
     \* fetchOptions.headers['Range']
     fetchRange |-> NONE,
     \* locals of the handler and of the fetcher it awaits
     isYouTubeUrl |-> FALSE, attempt |-> 0, retryDelay |-> 0, lastError |-> NoError,
     err |-> NoError, response |-> NoResponse,
     keepAliveInterval |-> NONE, requestTimeout |-> NONE,
     \* res
     statusCode |-> 200, headersSent |-> FALSE, writableEnded |-> FALSE,
     sentStatus |-> 0, wire |-> <<>>,
     \* time: a keepalive period has elapsed and its callback has not run yet
     pulseDue |-> FALSE, pulses |-> 0,
     \* the upstream headers were copied onto res
     copied |-> FALSE,
     \* history
     \* history: the number of the request among those of its client since the
     \* last reset, whether a route handler ran, upstream calls, waits, outcomes
     k |-> 0, handled |-> FALSE,
     netCalls |-> 0, waits |-> <<>>, outcomes |-> <<>>, touchedCounter |-> FALSE,
     \* history: the Range header of every upstream call, the argument of
     \* res.redirect, the bytes of this request's body that reached its size
     \* monitor, and what ended the relay
     sentRange |-> <<>>, location |-> NONE, ownBytes |-> 0, endedBy |-> NONE,
     \* history: the body of the response the fetcher returned, as upstream sent it
     upstream |-> <<>>,
     \* history: totalBytesStreamed as the size monitor of this request last
     \* compared it with MAX_FILE_SIZE
     seenTotal |-> 0,
     \* history: the backoff waits that have ended
     elapsed |-> 0,
     \* res has been ended under the pipe and its 'finish' has not been emitted
     finishDue |-> FALSE,
     \* the headers set on res; cors() has set its own before the handler runs
     headers |-> {<<"access-control-allow-origin", "*">>}]

Terminal == {"done", "aborted", "unhandled"}

Init ==
    /\ requestCounts = [c \in AllClients |-> 0]
    /\ totalBytesStreamed = 0
    /\ rq = [r \in Slots |-> Fresh]
    /\ running = 0
    /\ sinceReset = [c \in AllClients |-> 0]
    /\ lastVerdict = [c \in AllClients |-> NONE]
    /\ recovering = [c \in AllClients |-> FALSE]
    /\ justReset = FALSE

\* ------------------------------------------------------------ res (Express)

\* The status line and headers go out with the first write.
WriteHead(q) ==
    IF q.headersSent THEN q
    ELSE [q EXCEPT !.headersSent = TRUE, !.sentStatus = q.statusCode]

\* res.write(token)
ResWrite(q, token) == [WriteHead(q) EXCEPT !.wire = Append(@, token)]

\* res.end()
ResEnd(q) == [WriteHead(q) EXCEPT !.writableEnded = TRUE]

\* res.status(code)
ResStatus(q, code) == [q EXCEPT !.statusCode = code]

\* (variant: the body written without setting a header first)
SendThrowsNever(q) == FALSE

\* res.json / res.send / res.redirect set headers first: they throw
\* ERR_HTTP_HEADERS_SENT once the headers went out.
SendThrows(q) == q.headersSent

\* res.status(code).json(body), res.status(code).send(text), res.redirect(code, url)
ResSend(q, code, kind) == ResEnd(ResWrite(ResStatus(q, code), <<kind, 0>>))

\* ------------------------------------------------------- admission limiter

\* (variant: the counter of a client over the maximum left as it is)
IncrementedWhileAdmitted(counts, ip) ==
    [counts EXCEPT ![ip] = IF @ > RATE_LIMIT_MAX THEN @ ELSE @ + 1]

\* requestCounts[ip] = (requestCounts[ip] || 0) + 1
Incremented(counts, ip) == [counts EXCEPT ![ip] = @ + 1]

\* (variant: the comparison written >=)
LimiterRejectsAtMax(count) == count >= RATE_LIMIT_MAX

\* if (requestCounts[ip] > RATE_LIMIT_MAX)
LimiterRejects(count) == count > RATE_LIMIT_MAX

\* (variant: the rejecting branch does not return)
CallsNextAlways(rejected) == TRUE

\* the rejecting branch returns; next() is reached only past it
CallsNext(rejected) == ~rejected

\* (variant: the window's allowance is subtracted instead of the count cleared)
DecayedCounts(counts) ==
    [ip \in DOMAIN counts |->
        IF counts[ip] > RATE_LIMIT_MAX THEN counts[ip] - RATE_LIMIT_MAX ELSE 0]

\* Object.keys(requestCounts).forEach(ip => { requestCounts[ip] = 0; })
ClearedCounts(counts) == [ip \in DOMAIN counts |-> 0]

\* What the handler does next decides whether it keeps the event loop.
Awaiting == {"fetching", "waiting", "suspended", "streaming"}
RunAfter(r, q) == IF q.pc \in Awaiting \cup Terminal \cup {"idle"} THEN 0 ELSE r

\* A step of request r that leaves the limiter alone.
Step(r, q) ==
    /\ rq' = [rq EXCEPT ![r] = q]
    /\ running' = RunAfter(r, q)
    /\ justReset' = FALSE
    /\ UNCHANGED <<requestCounts, sinceReset, lastVerdict, recovering>>

\* A request arrives and runs through app.use(rateLimiter).
Receive(r, ip, route, url, range, limit) ==
    /\ running = 0
    /\ rq[r].pc \in {"idle"} \cup Terminal
    /\ rq[r].keepAliveInterval # "armed"
    /\ ~rq[r].finishDue
    /\ requestCounts[ip] < limit
    /\ LET counts == Incremented(requestCounts, ip)
           rejected == LimiterRejects(counts[ip])
           verdict == IF rejected THEN "rejected" ELSE "admitted"
           q0 == [Fresh EXCEPT !.route = route, !.url = url, !.range = range,
                               !.verdict = verdict, !.k = sinceReset[ip] + 1]
           q1 == IF rejected THEN ResSend(q0, 429, "json") ELSE q0
           q2 == [q1 EXCEPT !.pc = IF CallsNext(rejected) THEN "route" ELSE "done"]
       IN  /\ requestCounts' = counts
           /\ rq' = [rq EXCEPT ![r] = q2]
           /\ running' = RunAfter(r, q2)
           /\ sinceReset' = [sinceReset EXCEPT ![ip] = @ + 1]
           /\ lastVerdict' = [lastVerdict EXCEPT ![ip] = verdict]
           /\ recovering' = [recovering EXCEPT ![ip] = FALSE]
           /\ justReset' = FALSE
           /\ UNCHANGED totalBytesStreamed

\* The setInterval callback that clears the rate limit counts.
ResetRateLimits ==
    /\ running = 0
    /\ requestCounts' = ClearedCounts(requestCounts)
    /\ sinceReset' = [c \in AllClients |-> 0]
    /\ recovering' = [c \in AllClients |-> recovering[c] \/ lastVerdict[c] = "rejected"]
    /\ justReset' = TRUE
    /\ UNCHANGED <<totalBytesStreamed, rq, running, lastVerdict>>

\* ------------------------------------------------------------ the fetchers

\* const { setTimeout } = require('timers/promises'): setTimeout(delay, value)
\* returns a promise and takes no callback.  Called as setTimeout(callback, ms)
\* it never invokes the callback: the function is taken for the delay, which
\* a Node release either coerces to 1 ms or refuses by rejecting the promise.
PromiseTimerCallsBack == FALSE

\* Whether the await of a backoff wait ever continues.  fetchWithRetries awaits
\* setTimeout(ms) itself; fetchFromYouTube awaits
\* new Promise(resolve => setTimeout(resolve, ms)), whose resolve is the callback.
WaitResumes(isYouTubeUrl) == IF isYouTubeUrl THEN PromiseTimerCallsBack ELSE TRUE

\* The delay a timer runs with: anything outside 1 .. 2^31 - 1, NaN included, is 1.
TimerMs(ms) == IF ms[1] = "num" /\ ms[2] >= 1 /\ ms[2] <= 2147483647 THEN ms[2] ELSE 1

\* (variant: the wait started and not awaited)
EnterWaitNotAwaited(q, rsp, delay, resumes) ==
    [q EXCEPT !.pc = "attempt",
              !.retryDelay = @ * 2,
              !.attempt = @ + 1,
              !.waits = Append(@, [delay |-> delay, resumes |-> resumes,
                                   after |-> rsp.status,
                                   retryAfter |-> rsp.retryAfter,
                                   backoff |-> q.retryDelay])]

\* await of a backoff wait of `delay' ms, entered after the answer rsp of
\* upstream (NoResponse after an error).  The history keeps, with the delay,
\* the status and the Retry-After of the answer and retryDelay at that moment.
EnterWait(q, rsp, delay, resumes) ==
    [q EXCEPT !.pc = IF resumes THEN "waiting" ELSE "suspended",
              !.waits = Append(@, [delay |-> delay, resumes |-> resumes,
                                   after |-> rsp.status,
                                   retryAfter |-> rsp.retryAfter,
                                   backoff |-> q.retryDelay]),
              !.pulseDue = @ \/ (resumes /\ delay >= KEEPALIVE_MS)]

\* The catch block of the retry loop, the same in both fetchers.
Caught(q, e) ==
    LET q1 == [q EXCEPT !.lastError = e]
    IN  IF q.attempt < maxRetries
        THEN EnterWait(q1, NoResponse, q.retryDelay, WaitResumes(q.isYouTubeUrl))
        ELSE [q1 EXCEPT !.attempt = @ + 1, !.pc = "attempt"]

\* (variant: the expiry check left out)
LinkExpiredUnchecked(url) == FALSE

\* if (expire) { ... if (expireTimestamp < currentTime)
LinkExpired(url) ==
    /\ url.gvHost
    /\ url.expire # Absent
    /\ JsLess(ParseIntTimes1000(url.expire), Num(currentTime))

Outcome(q, what) == [q EXCEPT !.outcomes = Append(@, what)]

\* const response = await fetch(url, options)
IssueFetch(q) ==
    [q EXCEPT !.netCalls = @ + 1, !.sentRange = Append(@, q.fetchRange),
              !.pc = "fetching"]

\* The head of the retry loop and what runs up to the first await.
Attempt(r) ==
    /\ running = r
    /\ rq[r].pc = "attempt"
    /\ UNCHANGED totalBytesStreamed
    /\ LET q == rq[r]
       IN  IF q.attempt > maxRetries
           THEN \* throw lastError || new Error('Failed to fetch ...')
                Step(r, [q EXCEPT !.pc = "catch",
                                  !.err = IF q.lastError = NoError THEN ExhaustedError
                                          ELSE q.lastError])
           ELSE IF q.isYouTubeUrl /\ ~q.url.parses
           THEN Step(r, Caught(Outcome(q, "throw"), InvalidUrlError))
           ELSE IF q.isYouTubeUrl /\ LinkExpired(q.url)
           THEN Step(r, Caught(Outcome(q, "throw"), ExpiredError))
           ELSE Step(r, IssueFetch(q))

\* return response
Handed(q, rsp) == [q EXCEPT !.response = rsp, !.upstream = rsp.body, !.pc = "respond"]

\* What follows the await fetch when it resolves with rsp.
Returned(q, rsp) ==
    IF q.isYouTubeUrl
    THEN IF rsp.status = 429
         THEN EnterWait(Outcome(q, "429"), rsp, q.retryDelay, WaitResumes(TRUE))
         ELSE IF ~(rsp.status >= 200 /\ rsp.status <= 299)
         THEN Caught(Outcome(q, "status"), StatusError(rsp.status))
         ELSE Handed(Outcome(q, "ok"), rsp)
    ELSE IF rsp.status = 429
         THEN LET waitTime == IF rsp.retryAfter # Absent
                              THEN ParseIntTimes1000(rsp.retryAfter)
                              ELSE Num(q.retryDelay)
              IN  EnterWait(Outcome(q, "429"), rsp, TimerMs(waitTime), WaitResumes(FALSE))
         ELSE Handed(Outcome(q, "ok"), rsp)

\* The network call of request r settles with a response.
FetchResolves(r, rsp) ==
    /\ running = 0
    /\ rq[r].pc = "fetching"
    /\ ~rq[r].pulseDue
    /\ Step(r, Returned(rq[r], rsp))
    /\ UNCHANGED totalBytesStreamed

\* The network call of request r settles with an error.
FetchRejects(r, e) ==
    /\ running = 0
    /\ rq[r].pc = "fetching"
    /\ ~rq[r].pulseDue
    /\ e \in NetworkErrors(rq[r].isYouTubeUrl)
    /\ Step(r, Caught(Outcome(rq[r], "net"), Failure(e, rq[r].url)))
    /\ UNCHANGED totalBytesStreamed

\* (variant: a 429 retried without counting the attempt)
AfterWaitFree429(q) ==
    [q EXCEPT !.retryDelay = @ * 2,
              !.attempt = IF q.outcomes[Len(q.outcomes)] = "429" THEN @ ELSE @ + 1,
              !.elapsed = @ + 1,
              !.pc = "attempt"]

\* After the await of a wait: retryDelay *= 2, then continue or the end of the
\* loop body, and attempt++ of the for statement.
AfterWait(q) ==
    [q EXCEPT !.retryDelay = @ * 2, !.attempt = @ + 1, !.elapsed = @ + 1,
              !.pc = "attempt"]

\* The timer of a backoff wait fires.
WaitDone(r) ==
    /\ running = 0
    /\ rq[r].pc = "waiting"
    /\ ~rq[r].pulseDue
    /\ Step(r, AfterWait(rq[r]))
    /\ UNCHANGED totalBytesStreamed

\* ------------------------------------------------------ the /proxy handler

\* videoUrl.includes('googlevideo.com') || ...('youtube.com') || ...('youtu.be')
IsYouTubeUrl(url) == url.ytText

\* (variant: the parameter check left out)
MissingUrlUnchecked(url) == FALSE

\* if (!videoUrl)
MissingUrl(url) == ~url.present

\* (variant: no URL taken for a page)
IsPageUrlNever(url) == FALSE

\* videoUrl.includes('youtube.com/watch') || videoUrl.includes('youtu.be/') ||
\* videoUrl.match(/youtube\.com\/(shorts|playlist|channel|c\/)/)
IsPageUrl(url) == url.page

\* (variant: the client's Range header dropped)
RangeSentDefault(rangeHeader) == "bytes=0-"

\* fetchOptions.headers['Range'] = rangeHeader if (rangeHeader), else 'bytes=0-'
RangeSent(rangeHeader) == IF Truthy(rangeHeader) THEN rangeHeader ELSE "bytes=0-"

\* (variant: the timers left alone)
ClearTimersSkipped(q) == q

\* clearInterval(keepAliveInterval); clearTimeout(requestTimeout).  requestTimeout
\* holds the promise setTimeout returned, which clearTimeout ignores.
ClearTimers(q) == [q EXCEPT !.keepAliveInterval = "cleared"]

\* rateLimiter called next(): the route handlers, up to the first await.
Route(r) ==
    /\ running = r
    /\ rq[r].pc = "route"
    /\ LET q == [rq[r] EXCEPT !.handled = TRUE]
       IN  IF q.route = "/"
           THEN \* app.get('/'): res.send(page)
                /\ Step(r, IF SendThrows(q) THEN [q EXCEPT !.pc = "unhandled"]
                           ELSE [ResSend(q, 200, "html") EXCEPT !.pc = "done"])
                /\ UNCHANGED totalBytesStreamed
           ELSE IF q.route # "/proxy"
           THEN \* the custom 404 handler
                /\ Step(r, IF SendThrows(q) THEN [q EXCEPT !.pc = "unhandled"]
                           ELSE [ResSend(q, 404, "text") EXCEPT !.pc = "done"])
                /\ UNCHANGED totalBytesStreamed
           ELSE IF MissingUrl(q.url)
           THEN \* if (!videoUrl) return res.status(400).json(...)
                /\ Step(r, IF SendThrows(q) THEN [q EXCEPT !.pc = "unhandled"]
                           ELSE [ResSend(q, 400, "json") EXCEPT !.pc = "done"])
                /\ UNCHANGED totalBytesStreamed
           ELSE IF IsPageUrl(q.url)
           THEN \* return res.redirect(302, videoUrl)
                /\ Step(r, IF SendThrows(q) THEN [q EXCEPT !.pc = "unhandled"]
                           ELSE [ResSend(q, 302, "redirect")
                                    EXCEPT !.location = q.url, !.pc = "done"])
                /\ UNCHANGED totalBytesStreamed
           ELSE \* totalBytesStreamed = 0; the two timers; the fetcher is entered
                /\ totalBytesStreamed' = 0
                /\ Step(r, [q EXCEPT !.touchedCounter = TRUE,
                                     !.keepAliveInterval = "armed",
                                     !.requestTimeout = "promise",
                                     !.isYouTubeUrl = IsYouTubeUrl(q.url),
                                     !.fetchRange = RangeSent(q.range),
                                     !.attempt = 1,
                                     !.retryDelay = InitialRetryDelay,
                                     !.pc = "attempt"])

\* res.setHeader(name, value) on the headers of res, kept by lower-case name
SetHeader(headers, name, value) ==
    {h \in headers : h[1] # ToLowerCase(name)} \cup {<<ToLowerCase(name), value>>}

\* (variant: only the length left out of the copy)
IsSkippedLengthOnly(key) == ToLowerCase(key) = "content-length"

\* ['content-encoding', 'content-length', 'connection',
\*  'transfer-encoding'].includes(key.toLowerCase())
IsSkipped(key) ==
    ToLowerCase(key) \in
        {"content-encoding", "content-length", "connection", "transfer-encoding"}

RECURSIVE CopyHeaders(_, _)
\* for (const [key, value] of response.headers.entries()) ... res.setHeader(key, value)
CopyHeaders(headers, entries) ==
    IF entries = <<>> THEN headers
    ELSE LET key == Head(entries)[1]
             value == Head(entries)[2]
         IN  CopyHeaders(IF IsSkipped(key) THEN headers
                         ELSE SetHeader(headers, key, value),
                         Tail(entries))

\* const contentType = response.headers.get('content-type'); the value set
ContentTypeSet(rsp) ==
    LET e == Entries(rsp)
        at == {i \in 1..Len(e) : e[i][1] = "content-type"}
    IN  IF at # {} THEN e[CHOOSE i \in at : TRUE][2] ELSE "application/octet-stream"

\* estimatedSize && estimatedSize > MAX_FILE_SIZE
TooLarge(rsp) ==
    /\ rsp.contentLength[1] = "num"
    /\ rsp.contentLength[2] # 0
    /\ rsp.contentLength[2] > MAX_FILE_SIZE

\* What follows the await of the fetcher when it returned a response: the size
\* check, the status, the header copy, the content type and the pipe.
Respond(r) ==
    /\ running = r
    /\ rq[r].pc = "respond"
    /\ UNCHANGED totalBytesStreamed
    /\ LET q == rq[r]
           rsp == q.response
       IN  IF TooLarge(rsp)
           THEN LET q1 == ResStatus(ClearTimers(q), 413)
                IN  IF SendThrows(q1)
                    THEN Step(r, [q1 EXCEPT !.err = HeadersSentError, !.pc = "catch"])
                    ELSE Step(r, [ResSend(q1, 413, "json") EXCEPT !.pc = "done"])
           ELSE LET q1 == IF Truthy(q.range) /\ rsp.status = 206
                          THEN ResStatus(q, 206) ELSE q
                    \* every res.setHeader of the copy loop is in its own try
                    \* and throws once the headers went out
                    q2 == [q1 EXCEPT !.copied = ~q1.headersSent,
                                     !.headers = IF q1.headersSent THEN @
                                                 ELSE CopyHeaders(@, Entries(rsp))]
                IN  IF q2.headersSent
                    THEN \* res.setHeader('Content-Type', ...) throws
                         Step(r, [q2 EXCEPT !.err = HeadersSentError, !.pc = "catch"])
                    ELSE Step(r, [q2 EXCEPT !.headers = SetHeader(@, "Content-Type",
                                                                ContentTypeSet(rsp)),
                                           !.pc = "streaming"])

\* The catch block of the handler: the failure classifier.
Classify(e) ==
    IF "URL has expired" \in e.has THEN 410
    ELSE IF e.code = "ENOTFOUND" THEN 404
    ELSE IF e.type = "request-timeout" \/ e.name = "AbortError" THEN 504
    ELSE IF "429" \in e.has THEN 429
    ELSE IF "403" \in e.has THEN 403
    ELSE 500

\* catch (err) { clear the timers; answer by the kind of err }.  A throw of
\* res.json inside the catch block rejects the promise of the async handler,
\* which nothing handles.
CatchBlock(r) ==
    /\ running = r
    /\ rq[r].pc = "catch"
    /\ UNCHANGED totalBytesStreamed
    /\ LET q == ResStatus(ClearTimers(rq[r]), Classify(rq[r].err))
       IN  IF SendThrows(q)
           THEN Step(r, [q EXCEPT !.pc = "unhandled"])
           ELSE Step(r, [ResSend(q, Classify(rq[r].err), "json") EXCEPT !.pc = "done"])

\* --------------------------------------------------------- relay pipeline

\* A chunk of the upstream body passes through sizeMonitorStream.transform.
Chunk(r) ==
    /\ running = 0
    /\ rq[r].pc = "streaming"
    /\ ~rq[r].pulseDue
    /\ rq[r].response.body # <<>>
    /\ LET q == rq[r]
           chunk == Head(q.response.body)
           total == totalBytesStreamed + chunk
           rest == [q EXCEPT !.response.body = Tail(@), !.touchedCounter = TRUE,
                             !.ownBytes = @ + chunk, !.seenTotal = total]
       IN  /\ totalBytesStreamed' = total
           /\ IF total > MAX_FILE_SIZE
              THEN \* this.destroy(err); the 'error' handler ends res, which
                   \* emits 'finish' when what was written has gone out
                   Step(r, [(IF rest.writableEnded THEN rest ELSE ResEnd(rest))
                               EXCEPT !.endedBy = "size", !.pc = "aborted",
                                      !.finishDue = ~rest.writableEnded])
              ELSE \* this.push(chunk)
                   Step(r, ResWrite(rest, <<"chunk", chunk>>))

\* The upstream body ends: 'end' on the body, then 'finish' on res.
StreamEnds(r) ==
    /\ running = 0
    /\ rq[r].pc = "streaming"
    /\ ~rq[r].pulseDue
    /\ rq[r].response.body = <<>>
    /\ Step(r, [ResEnd(ClearTimers(rq[r])) EXCEPT !.endedBy = "end", !.pc = "done"])
    /\ UNCHANGED totalBytesStreamed

\* 'error' on the upstream body: the timers are cleared and res is ended.
SourceError(r) ==
    /\ running = 0
    /\ rq[r].pc = "streaming"
    /\ ~rq[r].pulseDue
    /\ rq[r].response.body # <<>>
    /\ Step(r, [ResEnd(ClearTimers(rq[r])) EXCEPT !.endedBy = "source", !.pc = "aborted"])
    /\ UNCHANGED totalBytesStreamed

\* 'finish' on res after the size monitor's 'error' handler has ended it: the
\* listener the pipe chain registered clears the timers.
Finish(r) ==
    /\ running = 0
    /\ rq[r].finishDue
    /\ Step(r, [ClearTimers(rq[r]) EXCEPT !.finishDue = FALSE, !.pulseDue = FALSE])
    /\ UNCHANGED totalBytesStreamed

\* ---------------------------------------------------------------- timers

\* (variant: the callback writes without looking at res)
PulseWritesAlways(q) == TRUE

\* if (!res.writableEnded) in the keepAliveInterval callback
PulseWrites(q) == ~q.writableEnded

\* Ten seconds go by while request r waits for something that can take that long.
TimePasses(r) ==
    /\ running = 0
    /\ rq[r].keepAliveInterval = "armed"
    /\ ~rq[r].pulseDue
    /\ rq[r].pc \in {"fetching", "suspended", "streaming"} \cup Terminal
    /\ Step(r, [rq[r] EXCEPT !.pulseDue = TRUE])
    /\ UNCHANGED totalBytesStreamed

\* The keepAliveInterval callback.  The interval goes on firing for as long as
\* it is armed; of its writes the first MaxPulses are recorded.
KeepAlive(r) ==
    /\ running = 0
    /\ rq[r].keepAliveInterval = "armed"
    /\ rq[r].pulseDue
    /\ LET q == [rq[r] EXCEPT !.pulseDue = FALSE]
       IN  IF PulseWrites(q)
           THEN Step(r, IF q.pulses < MaxPulses
                        THEN [ResWrite(q, <<"nl", 1>>) EXCEPT !.pulses = @ + 1]
                        ELSE q)
           ELSE Step(r, [q EXCEPT !.keepAliveInterval = "cleared"])
    /\ UNCHANGED totalBytesStreamed

\* The callback handed to setTimeout(callback, 120000) is never registered as a
\* timer callback (see PromiseTimerCallsBack): requestTimeout has no action.

\* --------------------------------------------------------- specifications

Routes == {"/proxy", "/", "/favicon.ico"}

\* The handler of request r and the callbacks that continue it.
HandlerSteps(r, responses) ==
    \/ Route(r)
    \/ Attempt(r)
    \/ \E rsp \in responses : FetchResolves(r, rsp)
    \/ \E e \in NetworkErrors(TRUE) : FetchRejects(r, e)
    \/ WaitDone(r)
    \/ Respond(r)
    \/ CatchBlock(r)
    \/ Chunk(r)
    \/ StreamEnds(r)
    \/ SourceError(r)

\* The keepalive interval of request r.
TimerSteps(r) == TimePasses(r) \/ KeepAlive(r)

\* What happens to request r between its arrival and its end.
Handle(r, responses) == HandlerSteps(r, responses) \/ TimerSteps(r)

\* One client, one request at a time, a few requests per window, every URL
\* and every upstream answer.
Arrive ==
    \E route \in Routes, url \in AllUrls, range \in RangeHeaders :
        /\ route # "/proxy" => (url = UrlMissing /\ range = NONE)
        /\ Receive(1, "10.0.0.1", route, url, range, MaxRequests)

Next == Arrive \/ ResetRateLimits \/ Handle(1, AllResponses) \/ Finish(1)

Spec == Init /\ [][Next]_vars

\* Two clients, one request at a time, enough requests per window to be
\* rejected, a missing or a plain URL, one answer.
ArriveLimiter ==
    \E ip \in AllClients, route \in Routes, url \in {UrlMissing, UrlGeneric} :
        /\ route # "/proxy" => url = UrlMissing
        /\ Receive(1, ip, route, url, NONE, MaxCount)

NextLimiter == ArriveLimiter \/ ResetRateLimits \/ Handle(1, {Resp200})

SpecLimiter == Init /\ [][NextLimiter]_vars

\* One client and one request over a plain and a provider URL.  Every network
\* call settles and every callback that is ready runs, however often the
\* keepalive interval fires in between; the interval fires while it is armed.
ArriveFetch ==
    \E url \in {UrlGeneric, UrlGvFresh} :
        Receive(1, "10.0.0.1", "/proxy", url, NONE, MaxRequests)

HandleFetch == HandlerSteps(1, {Resp200, Resp429})

NextFetch == ArriveFetch \/ HandleFetch \/ TimerSteps(1)

SpecFetchFair ==
    Init /\ [][NextFetch]_vars /\ SF_vars(HandleFetch) /\ WF_vars(TimerSteps(1))

\* Two requests of one client for plain URLs, in flight at the same time, each
\* over within ten seconds: no keepalive interval comes to fire.
ArriveConcurrent ==
    \E r \in Slots : Receive(r, "10.0.0.1", "/proxy", UrlGeneric, NONE, MaxRequests)

RelayResponses == {Resp200, RespAtCap, RespUndeclared}

NextConcurrent ==
    \/ ArriveConcurrent
    \/ \E r \in Slots : HandlerSteps(r, RelayResponses)
    \/ \E r \in Slots : Finish(r)

SpecConcurrent == Init /\ [][NextConcurrent]_vars

\* One client and one request at a time for a plain URL, with and without
\* digits that the classifier looks for in its text; upstream answers with
\* 200, 403 or 429, or the call fails.
ArriveClassify ==
    \E url \in {UrlGeneric, UrlNumbered} :
        Receive(1, "10.0.0.1", "/proxy", url, NONE, MaxRequests)

ClassifyResponses == {Resp200, Resp403, Resp429}

NextClassify == ArriveClassify \/ Handle(1, ClassifyResponses)

SpecClassify == Init /\ [][NextClassify]_vars

\* ------------------------------------------------------------- properties

Pow2(n) == 2 ^ n

HasChunk(q) == \E i \in 1..Len(q.wire) : q.wire[i][1] = "chunk"

\* C1. Admission threshold: the k-th request of a client since the last reset
\* is handed to the route handlers when k <= RATE_LIMIT_MAX and is answered
\* with 429 by the limiter, without reaching them, when k > RATE_LIMIT_MAX.
C1_AdmissionThreshold ==
    \A r \in Slots :
        LET q == rq[r]
        IN  q.pc # "idle" =>
                /\ q.k <= RATE_LIMIT_MAX =>
                       /\ q.verdict = "admitted"
                       /\ q.handled \/ (running = r /\ q.pc = "route")
                /\ q.k > RATE_LIMIT_MAX =>
                       /\ q.verdict = "rejected"
                       /\ ~q.handled /\ q.pc = "done"
                       /\ q.sentStatus = 429 /\ q.writableEnded

\* the eleventh request of a client in a window has been answered with 429
C1_Witness ==
    \E r \in Slots :
        rq[r].k = RATE_LIMIT_MAX + 1 /\ rq[r].sentStatus = 429 /\ rq[r].pc = "done"

\* C2. Window reset: the step of the reset timer leaves the counter of every
\* client at zero whatever it was, and the first request after a reset of a
\* client that had been rejected is admitted.
C2_WindowReset ==
    [][/\ justReset' => \A c \in AllClients : requestCounts'[c] = 0
       /\ \A c \in AllClients :
              recovering[c] /\ ~recovering'[c] => lastVerdict'[c] = "admitted"]_vars

\* the reset has just fired with both clients over the maximum before it
C2_Witness ==
    /\ justReset
    /\ \A c \in AllClients : recovering[c] /\ requestCounts[c] = 0

\* C3. The limiter gates every request: a request it rejected reaches no route
\* handler, makes no upstream call, creates neither timer and leaves the byte
\* counter alone.
C3_RejectedNeverHandled ==
    \A r \in Slots :
        LET q == rq[r]
        IN  q.verdict = "rejected" =>
                /\ ~q.handled /\ q.pc = "done"
                /\ q.netCalls = 0
                /\ q.keepAliveInterval = NONE /\ q.requestTimeout = NONE
                /\ ~q.touchedCounter

\* a rejected /proxy request for a URL that would have been fetched
C3_Witness ==
    \E r \in Slots :
        /\ rq[r].verdict = "rejected" /\ rq[r].route = "/proxy"
        /\ rq[r].url = UrlGeneric /\ rq[r].sentStatus = 429

\* C4. Retry success: while the attempts of a fetch have failed with network
\* errors, every backoff wait it entered is a wait of 1000 * 2^(i-1) ms that
\* ends, and when attempt k then succeeds the fetch returns the response after
\* exactly k-1 waits.  (Fails for fetchFromYouTube, whose wait never ends.)
C4_RetrySuccess ==
    \A r \in Slots :
        LET q == rq[r]
            o == q.outcomes
            n == Len(o)
        IN  (n >= 1 /\ o[n] \in {"net", "ok"} /\ \A i \in 1..(n - 1) : o[i] = "net") =>
                /\ \A i \in 1..Len(q.waits) :
                       /\ q.waits[i].resumes
                       /\ q.waits[i].delay = InitialRetryDelay * Pow2(i - 1)
                /\ o[n] = "ok" => (Len(q.waits) = n - 1 /\ q.response # NoResponse)

\* C5. Bounded attempts: a fetch makes at most maxRetries network calls whatever
\* upstream answers; every answer, a 429 included, uses up one attempt.
C5_BoundedAttempts ==
    \A r \in Slots :
        LET q == rq[r]
        IN  /\ q.netCalls <= maxRetries
            /\ Len(q.outcomes) <= maxRetries
            /\ q.netCalls <= q.attempt

\* three network calls were made, the first answered 429, the second failed
C5_Witness ==
    \E r \in Slots :
        /\ rq[r].netCalls = maxRetries /\ Len(rq[r].outcomes) = maxRetries
        /\ rq[r].outcomes[1] = "429" /\ rq[r].outcomes[2] = "net"
        /\ rq[r].outcomes[3] = "429" /\ rq[r].pc = "done"

NetOnly(q) ==
    q.outcomes # <<>> /\ \A i \in 1..Len(q.outcomes) : q.outcomes[i] = "net"

Exhausted(q) ==
    /\ Len(q.outcomes) = maxRetries
    /\ Len(q.waits) = maxRetries - 1
    /\ q.pc \in {"catch"} \cup Terminal
    /\ q.err = q.lastError /\ q.err \in NetworkErrors(TRUE)

\* C6. Retry exhaustion: a fetch whose attempts fail with network errors goes
\* on, unless upstream answers otherwise, to fail with the error of the last
\* attempt after exactly maxRetries - 1 backoff waits.  (Fails for
\* fetchFromYouTube, which never leaves its first wait.)
C6_RetryExhaustion ==
    NetOnly(rq[1]) ~> (~NetOnly(rq[1]) \/ Exhausted(rq[1]))

PastExpiry(url) ==
    url.expire[1] = "num" /\ url.expire[2] * 1000 < currentTime

\* C7 as claimed: a provider URL (one handed to fetchFromYouTube) whose expire
\* parameter is in the past makes no network call.
C7_ProviderExpiredNoCall ==
    \A r \in Slots :
        (rq[r].isYouTubeUrl /\ PastExpiry(rq[r].url)) => rq[r].netCalls = 0

\* C7. Expired link, amended: a URL whose host name contains googlevideo.com
\* and whose expire parameter is a Unix time in the past makes no network call
\* at any point of its request.
C7_ExpiredLinkNoCall ==
    \A r \in Slots :
        (rq[r].isYouTubeUrl /\ rq[r].url.gvHost /\ PastExpiry(rq[r].url)) =>
            rq[r].netCalls = 0

\* the fetch of an expired googlevideo link ran its first attempt and threw
C7_Witness ==
    \E r \in Slots :
        /\ rq[r].url = UrlGvExpired /\ rq[r].outcomes = <<"throw">>
        /\ rq[r].lastError = ExpiredError

\* C8. Expired link fails at once: once the expiry check has thrown, no
\* backoff wait is entered and the failure is with the caller.  (Fails: the
\* throw lands in the catch block of the retry loop.)
C8_ExpiredFailsAtOnce ==
    \A r \in Slots :
        rq[r].lastError = ExpiredError =>
            /\ rq[r].waits = <<>>
            /\ rq[r].pc \in {"catch"} \cup Terminal

\* C9. An expired link reaches the client as 410 and as no other status.
\* (Fails: the request is suspended in the fetcher and the keepalive pulse
\* commits a 200.)
C9_ExpiredAnswered410 ==
    \A r \in Slots :
        rq[r].lastError = ExpiredError => rq[r].sentStatus \in {0, 410}

\* C10. Pre-flight size check: once the handler has looked at a response that
\* declares more than MAX_FILE_SIZE bytes, the client has been answered 413,
\* no chunk went to the client and the keepalive interval is cleared.  (Fails
\* when a keepalive pulse was written while the fetch was pending.)
C10_PreflightTooLarge ==
    \A r \in Slots :
        LET q == rq[r]
        IN  (/\ q.response.contentLength[1] = "num"
             /\ q.response.contentLength[2] > MAX_FILE_SIZE
             /\ q.pc # "respond") =>
                /\ q.sentStatus = 413
                /\ ~HasChunk(q)
                /\ q.keepAliveInterval = "cleared"

\* C11. Mid-stream size cap: the size monitor ends a stream at the chunk that
\* takes the bytes it has seen of that stream above MAX_FILE_SIZE, and ends no
\* stream whose own bytes are at or below MAX_FILE_SIZE.  (Fails with two
\* requests in flight: totalBytesStreamed is shared.)
C11_MidStreamCap ==
    \A r \in Slots :
        (rq[r].endedBy = "size") <=> (rq[r].ownBytes > MAX_FILE_SIZE)

\* C12 as claimed: every upstream call of a request carries the client's Range
\* header value when the client sent a Range header, whatever its value, and
\* bytes=0- when it sent none.
C12_RangeVerbatim ==
    \A r \in Slots :
        \A i \in 1..Len(rq[r].sentRange) :
            rq[r].sentRange[i] =
                IF rq[r].range # NONE THEN rq[r].range ELSE "bytes=0-"

\* C12. Range forwarding, amended: every upstream call of a request, retries
\* included, carries the client's Range header value when the client sent a
\* non-empty one, and bytes=0- when it sent none or an empty one.
C12_RangeForwarded ==
    \A r \in Slots :
        /\ Len(rq[r].sentRange) = rq[r].netCalls
        /\ \A i \in 1..Len(rq[r].sentRange) :
               rq[r].sentRange[i] =
                   IF rq[r].range \notin {NONE, ""} THEN rq[r].range ELSE "bytes=0-"

\* a request with a Range header made three upstream calls
C12_Witness ==
    \E r \in Slots :
        /\ rq[r].range = "bytes=500-999" /\ rq[r].netCalls = maxRetries
        /\ rq[r].sentRange = <<"bytes=500-999", "bytes=500-999", "bytes=500-999">>

\* C13. 206 relay: once the handler has gone through an upstream response of
\* status 206 for a request that carried a Range header, the status that went
\* to the client, if any did, is 206.  (Fails when a keepalive pulse was
\* written while the fetch was pending.)
C13_PartialContentRelayed ==
    \A r \in Slots :
        LET q == rq[r]
        IN  (/\ Truthy(q.range) /\ q.response.status = 206
             /\ q.pc # "respond" /\ q.headersSent) =>
                q.sentStatus = 206

Relayed(body) == [i \in 1..Len(body) |-> <<"chunk", body[i]>>]

\* C14. Byte-exact relay: when the relay of a body has run to its end, what
\* went to the client after the headers is the chunks of the upstream body, in
\* order, and nothing else.  (Fails: the keepalive pulse writes a newline into
\* the body.)
C14_ByteExactRelay ==
    \A r \in Slots :
        rq[r].endedBy = "end" => rq[r].wire = Relayed(rq[r].upstream)

\* C15. Upstream unreachable: a request all of whose attempts failed with a
\* system-level network error (the host was not found or refused the
\* connection) is answered 404 with a JSON body and no chunk.  (Fails: only
\* ENOTFOUND is answered 404.)
C15_UnreachableAnswered404 ==
    \A r \in Slots :
        LET q == rq[r]
        IN  (/\ NetOnly(q) /\ Len(q.outcomes) = maxRetries
             /\ q.err.type = "system" /\ q.pc = "done") =>
                /\ q.sentStatus = 404
                /\ q.wire = <<(<<"json", 0>>)>>

\* C16. Missing parameter: an admitted /proxy request without a url parameter
\* that the handler has taken up is answered 400, with no upstream call, no
\* retry or wait, neither timer created and the byte counter left alone.
C16_MissingParameter ==
    \A r \in Slots :
        LET q == rq[r]
        IN  (/\ q.route = "/proxy" /\ q.verdict = "admitted"
             /\ ~q.url.present /\ q.handled) =>
                /\ q.pc = "done" /\ q.sentStatus = 400 /\ q.writableEnded
                /\ q.wire = <<(<<"json", 0>>)>>
                /\ q.netCalls = 0 /\ q.outcomes = <<>> /\ q.waits = <<>>
                /\ q.keepAliveInterval = NONE /\ q.requestTimeout = NONE
                /\ ~q.touchedCounter

\* a request without url was answered 400 and the byte counter still holds
\* the total of the request before it
C16_Witness ==
    \E r \in Slots :
        /\ rq[r].route = "/proxy" /\ ~rq[r].url.present /\ rq[r].sentStatus = 400
        /\ rq[r].pc = "done" /\ totalBytesStreamed > 0

\* C17. Redirect short-circuit: a /proxy request for a page URL that the
\* handler has taken up is answered with a 302 to that URL, with no upstream
\* call, neither timer created and the byte counter left alone.
C17_RedirectShortCircuit ==
    \A r \in Slots :
        LET q == rq[r]
        IN  (/\ q.route = "/proxy" /\ q.verdict = "admitted"
             /\ q.url.present /\ q.url.page /\ q.handled) =>
                /\ q.pc = "done" /\ q.sentStatus = 302 /\ q.writableEnded
                /\ q.wire = <<(<<"redirect", 0>>)>> /\ q.location = q.url
                /\ q.netCalls = 0 /\ q.outcomes = <<>> /\ q.waits = <<>>
                /\ q.keepAliveInterval = NONE /\ q.requestTimeout = NONE
                /\ ~q.touchedCounter

\* a page URL was redirected and the byte counter still holds the total of
\* the request before it
C17_Witness ==
    \E r \in Slots :
        /\ rq[r].url = UrlPage /\ rq[r].sentStatus = 302 /\ rq[r].location = UrlPage
        /\ rq[r].pc = "done" /\ totalBytesStreamed > 0

AllAnswered(q, what) ==
    Len(q.outcomes) = maxRetries /\ \A i \in 1..Len(q.outcomes) : q.outcomes[i] = what

\* C18. Upstream rate limiting exhausted: a request whose every attempt was
\* answered 429 by upstream, once answered, has been answered 429.  (Fails:
\* fetchWithRetries ends with an error that does not mention 429, and
\* fetchFromYouTube never leaves its first wait.)
C18_RateLimitedAnswered429 ==
    \A r \in Slots :
        (AllAnswered(rq[r], "429") /\ rq[r].pc = "done") => rq[r].sentStatus = 429

\* the fetch stage came out with a 403 of upstream: the response handed to the
\* handler, or the error made of it
Forbidden(q) == q.response.status = 403 \/ q.lastError = StatusError(403)

\* C19. Upstream forbidden: a request whose fetch stage came out with an
\* upstream 403 has, once headers went to the client, been answered 403.
\* (Fails: fetchWithRetries returns the 403 as a response, which is relayed
\* under status 200, and fetchFromYouTube never reports its error.)
C19_ForbiddenAnswered403 ==
    \A r \in Slots :
        (Forbidden(rq[r]) /\ rq[r].headersSent) => rq[r].sentStatus = 403

\* C20. Overall deadline: a request for which the deadline was set up and
\* which does not end by itself is ended by the deadline, time going on.
\* (Fails: the callback of the deadline is never run.)
C20_DeadlineAborts ==
    (rq[1].requestTimeout = "promise" /\ rq[1].pc = "suspended")
        ~> rq[1].writableEnded

ErrorBodies(q) == Cardinality({i \in 1..Len(q.wire) : q.wire[i][1] = "json"})

\* C21. No rewrite after commit: once the headers of the response to a request
\* have gone to the client, no step of that request changes the status on the
\* wire or writes a JSON error body.
C21_NoRewriteAfterCommit ==
    [][\A r \in Slots :
          (/\ rq[r].headersSent /\ rq'[r].headersSent
           /\ rq'[r].verdict = "admitted" /\ rq'[r].k = rq[r].k) =>
              /\ rq'[r].sentStatus = rq[r].sentStatus
              /\ ErrorBodies(rq'[r]) = ErrorBodies(rq[r])]_vars

\* the catch block of the handler ran after a keepalive pulse had committed
\* the response
C21_Witness ==
    \E r \in Slots :
        /\ rq[r].pc = "unhandled" /\ rq[r].err # NoError
        /\ rq[r].sentStatus = 200 /\ rq[r].wire = <<(<<"nl", 1>>)>>

\* C22. Pre-stream failures get a JSON envelope: a request whose fetch stage
\* failed, once its handler is through, has been answered with an error status
\* and a JSON body and with nothing before it.  (Fails when a keepalive pulse
\* was written while the fetch stage was going on.)
C22_PreStreamJsonEnvelope ==
    \A r \in Slots :
        LET q == rq[r]
        IN  (/\ q.err # NoError /\ q.response = NoResponse
             /\ q.pc \in Terminal) =>
                /\ q.sentStatus >= 400
                /\ q.wire = <<(<<"json", 0>>)>>

\* C23. Size-cap state is per stream: the total the size monitor of a stream
\* compares with MAX_FILE_SIZE is the number of body bytes of that stream that
\* reached it, and a stream it has not ended has taken no more than
\* MAX_FILE_SIZE bytes.  (Fails: the total is one variable for all requests.)
C23_PerStreamTotal ==
    \A r \in Slots :
        /\ rq[r].seenTotal = rq[r].ownBytes
        /\ rq[r].endedBy # "size" => rq[r].ownBytes <= MAX_FILE_SIZE

\* C24. The provider-aware fetch rejects a response that is neither 2xx nor
\* 429 at once: after such a response the fetch has failed, with no backoff
\* wait entered and no further call made.  (Fails: the throw lands in the
\* catch block of the retry loop, which waits to retry.)
C24_ProviderRejectsAtOnce ==
    \A r \in Slots :
        LET q == rq[r]
            n == Len(q.outcomes)
        IN  (q.isYouTubeUrl /\ n >= 1 /\ q.outcomes[n] = "status") =>
                /\ q.pc \in {"catch"} \cup Terminal
                /\ Len(q.waits) < n

\* C25. 429 wait time: every wait entered after a 429 of upstream is a wait of
\* Retry-After seconds when the 429 carried a Retry-After header and of the
\* backoff delay of that moment otherwise, and it ends.  (Fails for
\* fetchFromYouTube, which does not read Retry-After and whose wait never ends.)
C25_RateLimitWait ==
    \A r \in Slots :
        \A i \in 1..Len(rq[r].waits) :
            LET w == rq[r].waits[i]
            IN  w.after = 429 =>
                    /\ w.delay = IF w.retryAfter[1] = "num"
                                 THEN w.retryAfter[2] * 1000 ELSE w.backoff
                    /\ w.resumes

\* C26. Counter accounting: the counter of every client is the number of
\* requests received from it since the last reset, rejected ones included.
C26_CounterAccounting ==
    \A c \in AllClients : requestCounts[c] = sinceReset[c]

\* a client went on sending after it was rejected, and was counted
C26_Witness ==
    \E c \in AllClients :
        /\ requestCounts[c] >= RATE_LIMIT_MAX + 2 /\ lastVerdict[c] = "rejected"

FramingHeaders ==
    {"content-encoding", "content-length", "connection", "transfer-encoding"}

\* C27. Header filtering: once the handler has copied the headers of an
\* upstream response, failures of res.setHeader aside, each header line of the
\* response is on the client response under its name and with its value
\* exactly when its name, in lower case, is none of content-encoding,
\* content-length, connection and transfer-encoding.
C27_HeaderFiltering ==
    \A r \in Slots :
        LET q == rq[r]
            lines == UpstreamHeaders(q.response)
        IN  (q.copied /\ q.pc \in {"streaming", "done", "aborted"}) =>
                \A i \in 1..Len(lines) :
                    (ToLowerCase(lines[i][1]) \notin FramingHeaders)
                        <=> (<<ToLowerCase(lines[i][1]), lines[i][2]>> \in q.headers)

\* the headers of a response with a Content-Length and an ETag were copied
C27_Witness ==
    \E r \in Slots :
        /\ rq[r].copied /\ rq[r].pc = "streaming"
        /\ rq[r].response.contentLength = Num(1000)
        /\ <<"etag", "abc">> \in rq[r].headers
        /\ \A h \in rq[r].headers : h[1] # "content-length"

\* C28. Header-copy failures do not abort the relay: once the handler is past
\* the headers of a response it was to relay, whatever res.setHeader threw,
\* the body is being streamed or has been.  (Fails: the Content-Type header is
\* set outside the try of the copy loop.)
C28_HeaderFailureSkipped ==
    \A r \in Slots :
        LET q == rq[r]
        IN  (/\ q.response # NoResponse /\ ~TooLarge(q.response)
             /\ q.pc # "respond") =>
                q.pc \in {"streaming", "done", "aborted"}

\* upstream calls of a request that were made and have not settled
InFlight(q) ==
    q.netCalls - Cardinality({i \in 1..Len(q.outcomes) : q.outcomes[i] # "throw"})

\* C29. Sequential attempts: a request has at most one upstream call in
\* flight, and while one is in flight every call before it has settled and
\* every backoff wait entered before it has ended.
C29_SequentialAttempts ==
    \A r \in Slots :
        LET q == rq[r]
        IN  /\ InFlight(q) \in {0, 1}
            /\ InFlight(q) = 1 <=> q.pc = "fetching"
            /\ q.pc = "fetching" => q.elapsed = Len(q.waits)

\* the third call of a request is in flight after two calls and two waits
C29_Witness ==
    \E r \in Slots :
        /\ rq[r].pc = "fetching" /\ rq[r].netCalls = maxRetries
        /\ Len(rq[r].outcomes) = 2 /\ rq[r].elapsed = 2

\* C30. Header copy happens before body streaming: of a request that is to be
\* fetched and relayed, no byte (a chunk of the body or a keepalive newline)
\* has gone to the client unless the status and the upstream headers had been
\* set on the response.  (Fails: the keepalive pulse writes while the fetch is
\* pending.)
C30_HeadersBeforeBody ==
    \A r \in Slots :
        LET q == rq[r]
        IN  (\E i \in 1..Len(q.wire) : q.wire[i][1] \in {"nl", "chunk"}) => q.copied

RECURSIVE Forwarded(_)
\* the bytes of upstream body in what went to the client
Forwarded(wire) ==
    IF wire = <<>> THEN 0
    ELSE (IF Head(wire)[1] = "chunk" THEN Head(wire)[2] ELSE 0) + Forwarded(Tail(wire))

\* C31. No chunk is forwarded at or after the size abort: what a stream the
\* size monitor has ended forwarded is what it had forwarded before the chunk
\* that ended it, and no response carries more than MAX_FILE_SIZE bytes of
\* upstream body.  (Fails with two requests in flight: the total the monitor
\* looks at is reset under a running stream, which is then not ended.)
C31_NothingPastTheCap ==
    \A r \in Slots :
        /\ Forwarded(rq[r].wire) <= MAX_FILE_SIZE
        /\ rq[r].endedBy = "size" => Forwarded(rq[r].wire) < rq[r].ownBytes

\* The answers of upstream that a request has received: the attempts whose
\* network call resolved with a response.
Received(q) == {i \in 1 .. Len(q.outcomes) : q.outcomes[i] \in {"429", "status", "ok"}}

\* Whether the body of the i-th answer has been let go of.  The fetchers call
\* nothing on a response they do not return: a 429, and on the provider path a
\* status outside 2xx, is left unread and undestroyed.  The body of the response
\* that is returned is let go of when the relay has read it to its end or when
\* it has failed; a 413 and the size abort leave it unread.
Released(q, i) ==
    /\ q.outcomes[i] = "ok"
    /\ q.endedBy \in {"end", "source"}

\* The upstream bodies a request holds open.
OpenBodies(q) == Cardinality({i \in Received(q) : ~Released(q, i)})

\* C32. Single active upstream body: a request holds at most one upstream
\* response open, and holds none while an attempt is in flight (the answer of
\* the attempt before has been released by then).
C32_SingleUpstreamBody ==
    \A r \in Slots :
        /\ OpenBodies(rq[r]) <= 1
        /\ rq[r].pc = "fetching" => OpenBodies(rq[r]) = 0

\* C33. Timers cancelled on normal completion: once the upstream body has
\* ended and the response has finished, the keepalive interval of the request
\* is cancelled and no timer callback of the request can run any more.
C33_TimersCancelledOnCompletion ==
    \A r \in Slots :
        rq[r].endedBy = "end" =>
            /\ rq[r].keepAliveInterval = "cleared"
            /\ ~ENABLED TimerSteps(r)

\* a relay during which the keepalive callback ran has completed
C33_Witness ==
    \E r \in Slots :
        rq[r].endedBy = "end" /\ rq[r].pc = "done" /\ rq[r].pulses >= 1

\* A request for which the handler created its timers and which is over.
Finished(q) == q.pc \in Terminal /\ q.keepAliveInterval # NONE

C35_NoWriteAfterEnd ==
    [][\A r \in Slots :
          (rq[r].writableEnded /\ rq'[r].writableEnded) => rq'[r].wire = rq[r].wire]_vars

\* the keepalive callback has run on a response that the size abort had ended
\* and has cleared the interval itself
C35_Witness ==
    \E r \in Slots :
        /\ rq[r].endedBy = "size" /\ rq[r].finishDue
        /\ rq[r].keepAliveInterval = "cleared"

\* C36. Every request terminates: an admitted /proxy request with a url, once
\* its fetcher has started, comes to an end (its response is ended or its
\* handler is over), given that every call settles and every timer fires.
C36_EveryRequestTerminates ==
    (rq[1].pc = "attempt" /\ rq[1].attempt = 1)
        ~> (rq[1].writableEnded \/ rq[1].pc \in Terminal)

\* C37. The backoff waits of the provider-aware fetcher complete: a request
\* that waits between two attempts at a provider URL goes on after the wait.
C37_ProviderWaitCompletes ==
    (rq[1].isYouTubeUrl /\ rq[1].pc = "suspended") ~> (rq[1].pc # "suspended")

\* C38. Single response per request: once the status line and the headers of
\* a response have gone out, no code path sets a status on it again, so the
\* status held by res is the one that was sent.
C38_SingleResponse ==
    \A r \in Slots :
        rq[r].headersSent => rq[r].statusCode = rq[r].sentStatus

\* Upstream answered a call of the request with this status.
UpstreamSaid(q, status) ==
    \/ status = 429 /\ \E i \in 1 .. Len(q.outcomes) : q.outcomes[i] = "429"
    \/ q.response # NoResponse /\ q.response.status = status
    \/ q.lastError = StatusError(status) /\ status \in {403, 429}

\* C39. Classifier soundness for 429 and 403: the handler of an admitted
\* request answers 429 (or 403) only when upstream answered a call of that
\* request with 429 (or 403).
C39_ClassifierSound ==
    \A r \in Slots :
        \A status \in {429, 403} :
            (rq[r].handled /\ rq[r].sentStatus = status) => UpstreamSaid(rq[r], status)

\* C40. Upstream error statuses are not relayed as success: when the fetcher
\* of the generic path has returned a response whose status is outside 2xx,
\* the status sent to the client is neither 200 nor 206.
C40_ErrorStatusNotRelayedAsSuccess ==
    \A r \in Slots :
        LET q == rq[r]
        IN  (/\ ~q.isYouTubeUrl /\ q.response # NoResponse
             /\ ~(q.response.status >= 200 /\ q.response.status <= 299)
             /\ q.headersSent) =>
                q.sentStatus \notin {200, 206}

====
